---- MODULE Spec2Model ----
(***************************************************************************)
(* A model of the reducer driver (5chmidti/reducer):                       *)
(*   - the crash-check bisector of driver/clang_tidy.py,                   *)
(*   - the interestingness-test synthesizer (test.sh) in its three         *)
(*     variants (lib/setup.py, driver/compiler_crash.py, reducer.py),      *)
(*   - preprocess_file and the reduce loop of lib/setup.py,                *)
(*   - the command transformation of lib/setup.py.                         *)
(* Each part has its own specification; the variables of the other parts   *)
(* stay at their idle values.                                              *)
(***************************************************************************)
EXTENDS Integers, Sequences, FiniteSets, TLC

VARIABLES
    \* ---- crash-check bisector (driver/clang_tidy.py) ----
    list_of_checks,   \* the enabled checks, in the order the tool lists them
    crash_cores,      \* the tool: it crashes iff some core is wholly enabled
    crash_sets,       \* ... or the enabled checks are one of these sets
    stderr,           \* the error stream of the first run (text)
    stack,            \* pending calls of the binary search (argument lists)
    result,           \* concatenation of the results returned so far
    runs,             \* number of tool runs made by the search
    bpc,              \* position of deduce_crashing_check
    \* ---- interestingness test (test.sh) ----
    args,             \* the configuration (argparse Namespace), set or unset
    tools,            \* what each external command does when it is run
    file_content,     \* the text of test.sh, as shell words
    segment,          \* index of the next && operand test.sh runs
    ran,              \* the commands test.sh has run
    exit_code,        \* exit status of test.sh (-1: none)
    variant,          \* which create_interestingness_test wrote test.sh
    spc,              \* position: config, written, exited, hung
    \* ---- preprocess_file and the reduce loop (lib/setup.py) ----
    interesting,      \* the file contents on which test.sh exits 0
    preprocessor,     \* the preprocessor: content read |-> content written
    prompt_rerun,     \* args.prompt_rerun
    original_file,    \* content of the original source file (args.file)
    file,             \* content of the working file cwd/<name> (0: absent)
    backup,           \* content of cwd/<name>.bckp (0: absent)
    snapshots,        \* suffix s |-> content of the snapshot cwd/<name><s>
    iteration,        \* the local counter of reduce
    return_code,      \* exit status of the last reducer call (-1: none yet)
    prompted,         \* what prompt_yes_no returned, call after call
    last,             \* the last preprocess_file call: before, candidate, exit
    calls,            \* number of preprocess_file calls that have returned
    pc,               \* position of the driver
    \* ---- command extraction and transformation (lib/setup.py) ----
    process_cwd,      \* the working directory of the process (text)
    args_file,        \* args.file as given (text of the path)
    database,         \* build_dir/compile_commands.json: entries file, command
    compile_commands, \* what get_compile_commands_entry_for_file returned
    sandbox_database, \* cwd/compile_commands.json as written
    compile_command,  \* compile_commands[0]["command"]
    reduce_compile_commands, \* the entries reduce derives from the sandbox
    written,          \* the paths written so far by the steps
    supported,        \* the dialects the help of the reducer lists (texts)
    invocation,       \* the command line reduce builds (list of texts)
    tpc               \* position of setup_test_folder

bisectVars ==
    <<list_of_checks, crash_cores, crash_sets, stderr, stack, result, runs, bpc>>

scriptVars ==
    <<args, tools, file_content, segment, ran, exit_code, variant, spc>>

driverVars ==
    <<interesting, preprocessor, prompt_rerun, original_file, file, backup,
      snapshots, iteration, return_code, prompted, last, calls, pc>>

setupVars ==
    <<process_cwd, args_file, database, compile_commands, sandbox_database,
      compile_command, reduce_compile_commands, written, supported,
      invocation, tpc>>

vars == <<bisectVars, scriptVars, driverVars, setupVars>>

(***************************************************************************)
(* Helpers on sequences                                                    *)
(***************************************************************************)
Range(s) == {s[i] : i \in 1..Len(s)}

\* Python's s[a:b] for 0 <= a <= b <= len(s)
Slice(s, a, b) == SubSeq(s, a + 1, b)

Max(S) == CHOOSE x \in S : \A y \in S : y <= x

Min(S) == CHOOSE x \in S : \A y \in S : x <= y

\* `pat` occurs in `s` at index i (from 1)
MatchesAt(s, i, pat) ==
    /\ i >= 1
    /\ i + Len(pat) - 1 <= Len(s)
    /\ \A k \in 1..Len(pat) : s[i + k - 1] = pat[k]

\* Python's `pat in s`
Contains(s, pat) == \E i \in 1..Len(s) : MatchesAt(s, i, pat)

\* index of the last character of the run of characters of `class` (or not
\* of it, with `inside` FALSE) that starts at i; i - 1 for an empty run
RunEnd(s, i, class, inside) ==
    LET stops == {k \in i..Len(s) : (s[k] \in class) # inside}
    IN  IF stops = {} THEN Len(s) ELSE Min(stops) - 1

(***************************************************************************)
(* Bounds                                                                  *)
(***************************************************************************)
MaxChecks == 7
MaxCoreSize == 2
MaxContent == 3
MaxIterations == 2
MaxEntries == 2
MaxRepeat == 2

(***************************************************************************)
(* The idle values of each part's variables                                *)
(***************************************************************************)
BisectIdle ==
    /\ list_of_checks = <<>>
    /\ crash_cores = {}
    /\ crash_sets = {}
    /\ stderr = <<>>
    /\ stack = <<>>
    /\ result = <<>>
    /\ runs = 0
    /\ bpc = "idle"

ScriptIdle ==
    /\ args = <<>>
    /\ tools = <<>>
    /\ file_content = <<>>
    /\ segment = 0
    /\ ran = {}
    /\ exit_code = -1
    /\ variant = "none"
    /\ spc = "idle"

DriverIdle ==
    /\ interesting = {}
    /\ preprocessor = <<>>
    /\ prompt_rerun = FALSE
    /\ original_file = 0
    /\ file = 0
    /\ backup = 0
    /\ snapshots = <<>>
    /\ iteration = 0
    /\ return_code = -1
    /\ prompted = <<>>
    /\ last = <<>>
    /\ calls = 0
    /\ pc = "idle"

SetupIdle ==
    /\ process_cwd = <<>>
    /\ args_file = <<>>
    /\ database = <<>>
    /\ compile_commands = <<>>
    /\ sandbox_database = <<>>
    /\ compile_command = <<>>
    /\ reduce_compile_commands = <<>>
    /\ written = {}
    /\ supported = <<>>
    /\ invocation = <<>>
    /\ tpc = "idle"

(***************************************************************************)
(* Crash-check bisector                                                    *)
(***************************************************************************)
\* The tool run of line 98-102 restricted to `enabled`: nonzero return code
\* (a crash) iff one of the cores is wholly enabled (a monotone predicate)
\* or `enabled` is one of the crash sets (any predicate at all).
ToolCrashes(enabled) ==
    \/ \E core \in crash_cores : core \subseteq enabled
    \/ enabled \in crash_sets

\* mutant: the list is not split
Half_Whole(l) == Len(l)

\* int(len(list_of_checks) / 2)
Half(l) == Len(l) \div 2

LeftHalf(l) == Slice(l, 0, Half(l))

RightHalf(l) == Slice(l, Half(l), Len(l))

\* the test of line 95: a list of at most one check is returned as it is
IsLeaf(l) == Len(l) <= 1

Cores(n) == {c \in SUBSET (1..n) : Cardinality(c) \in 1..MaxCoreSize}

\* the crash predicates: never, one core, or either of two cores
CorePredicates(n) ==
    {{}} \cup {{c} : c \in Cores(n)} \cup {{c, d} : c, d \in Cores(n)}

(* ---- the fast path: the marker in the error stream ---- *)
MarkerPrefix ==
    <<"A", "S", "T", "M", "a", "t", "c", "h", "e", "r", ":", " ",
      "P", "r", "o", "c", "e", "s", "s", "i", "n", "g", " ", "'">>

\* the marker of a crash while the check `name` was running
Marker(name) == MarkerPrefix \o name \o <<"'">>

\* re: where the match of "ASTMatcher: Processing '([^']*)'" that starts at
\* i ends (0: no match)
MarkerMatchEnd(s, i) ==
    IF ~MatchesAt(s, i, MarkerPrefix) THEN 0
    ELSE LET name_end == RunEnd(s, i + Len(MarkerPrefix), {"'"}, FALSE)
         IN  IF name_end < Len(s) THEN name_end + 1 ELSE 0

\* re.match(pattern, s): the pattern is tried at the start of s only;
\* the match object holds group 0 (the whole match) and group 1
match(s) ==
    IF MarkerMatchEnd(s, 1) = 0 THEN [found |-> FALSE]
    ELSE [found |-> TRUE,
          group0 |-> SubSeq(s, 1, MarkerMatchEnd(s, 1)),
          group1 |-> SubSeq(s, Len(MarkerPrefix) + 1,
                            MarkerMatchEnd(s, 1) - 1)]

\* m.group(): with no argument, group 0
group(m) == m.group0

\* deduce_crashing_check_from_crash on the error stream s: the text it
\* returns, <<>> for None (the empty text and None are both falsy at line 125)
from_crash(s) == IF match(s).found THEN group(match(s)) ELSE <<>>

\* the error streams of the first run: the name of the crashing check
CheckName == <<"m", "i", "s", "c", "-", "x">>
StackDump == <<"S", "t", "a", "c", "k", " ", "d", "u", "m", "p", ":", "\n">>
Against == <<" ", "a", "g", "a", "i", "n", "s", "t", ":", "\n">>

Streams ==
    {<<>>,
     StackDump \o Marker(CheckName) \o Against,
     Marker(CheckName) \o Against,
     Marker(CheckName)}

\* the sets of checks a halving search can run the tool on: the intervals
\* lo..hi, by repeated halving of 1..n, that hold two checks or more
RECURSIVE Queries(_, _)
Queries(lo, hi) ==
    IF hi - lo < 1 THEN {}
    ELSE {lo..hi}
             \cup Queries(lo, lo + (hi - lo + 1) \div 2 - 1)
             \cup Queries(lo + (hi - lo + 1) \div 2, hi)

\* the tool is a monotone predicate given by cores, or any predicate at all,
\* given by its value on each set the search can ask about
InitBisect ==
    /\ \E n \in 0..MaxChecks :
          /\ list_of_checks = [i \in 1..n |-> i]
          /\ \/ /\ crash_cores \in CorePredicates(n)
                /\ crash_sets = {}
             \/ /\ crash_cores = {}
                /\ crash_sets \in SUBSET Queries(1, n)
    /\ stderr \in Streams
    /\ stack = <<>>
    /\ result = <<>>
    /\ runs = 0
    /\ bpc = "crash"
    /\ ScriptIdle
    /\ DriverIdle
    /\ SetupIdle

\* deduce_crashing_check, lines 121-126: the tool is run once and its error
\* stream is looked at; a truthy result is returned in a one-element list
deduce_crashing_check_from_crash ==
    /\ bpc = "crash"
    /\ IF from_crash(stderr) # <<>>
       THEN /\ result' = <<from_crash(stderr)>>
            /\ bpc' = "deduced"
       ELSE /\ bpc' = "start"
            /\ UNCHANGED result
    /\ UNCHANGED <<list_of_checks, crash_cores, crash_sets, stderr, stack, runs>>
    /\ UNCHANGED <<scriptVars, driverVars, setupVars>>

\* deduce_crashing_check, line 128: the search is called on the enabled checks
StartSearch ==
    /\ bpc = "start"
    /\ stack' = <<list_of_checks>>
    /\ bpc' = "search"
    /\ UNCHANGED <<list_of_checks, crash_cores, crash_sets, stderr, result, runs>>
    /\ UNCHANGED <<scriptVars, driverVars, setupVars>>

\* lines 95-96: a call on at most one check returns its argument, untested
ReturnLeaf ==
    /\ bpc = "search"
    /\ stack # <<>>
    /\ IsLeaf(Head(stack))
    /\ result' = result \o Head(stack)
    /\ stack' = Tail(stack)
    /\ UNCHANGED <<list_of_checks, crash_cores, crash_sets, stderr, runs, bpc>>
    /\ UNCHANGED <<scriptVars, driverVars, setupVars>>

\* lines 98-104: the tool does not crash on the list: the call returns []
ReturnEmpty ==
    /\ bpc = "search"
    /\ stack # <<>>
    /\ ~IsLeaf(Head(stack))
    /\ ~ToolCrashes(Range(Head(stack)))
    /\ runs' = runs + 1
    /\ stack' = Tail(stack)
    /\ UNCHANGED <<list_of_checks, crash_cores, crash_sets, stderr, result, bpc>>
    /\ UNCHANGED <<scriptVars, driverVars, setupVars>>

\* lines 98-114: the tool crashes on the list: recurse on the left half,
\* then on the right half, and concatenate
Recurse ==
    /\ bpc = "search"
    /\ stack # <<>>
    /\ ~IsLeaf(Head(stack))
    /\ ToolCrashes(Range(Head(stack)))
    /\ runs' = runs + 1
    /\ stack' = <<LeftHalf(Head(stack)), RightHalf(Head(stack))>> \o Tail(stack)
    /\ UNCHANGED <<list_of_checks, crash_cores, crash_sets, stderr, result, bpc>>
    /\ UNCHANGED <<scriptVars, driverVars, setupVars>>

\* the outermost call has returned
SearchReturns ==
    /\ bpc = "search"
    /\ stack = <<>>
    /\ bpc' = "done"
    /\ UNCHANGED <<list_of_checks, crash_cores, crash_sets, stderr, stack, result,
                   runs>>
    /\ UNCHANGED <<scriptVars, driverVars, setupVars>>

NextBisect ==
    \/ deduce_crashing_check_from_crash
    \/ StartSearch
    \/ ReturnLeaf
    \/ ReturnEmpty
    \/ Recurse
    \/ SearchReturns

SpecBisect == InitBisect /\ [][NextBisect]_vars

\* the known single check / pair of a crash predicate
SingleCulprit(p) == crash_cores = {{p}} /\ crash_sets = {}

PairCulprit(p, q) == p # q /\ crash_cores = {{p, q}} /\ crash_sets = {}

\* C1: with a crash predicate true exactly when one known check p is enabled,
\* the search over n in {1, 2, 7} checks returns exactly the list <<p>>.
C1_SingleReturned ==
    \A p \in 1..MaxChecks :
        (bpc = "done" /\ Len(list_of_checks) \in {1, 2, 7} /\ SingleCulprit(p))
            => result = <<p>>

\* C2: with a crash predicate true exactly when both checks of a known pair
\* are enabled, the search over n in {2, 7} checks returns exactly those two.
C2_PairReturned ==
    \A p, q \in 1..MaxChecks :
        (bpc = "done" /\ Len(list_of_checks) \in {2, 7} /\ PairCulprit(p, q))
            => (Range(result) = {p, q} /\ Len(result) = 2)

\* C3: if the tool crashes with the full check list (the predicate is monotone
\* by construction), the returned subset reproduces the crash.
C3_ResultReproduces ==
    (bpc = "done" /\ crash_sets = {} /\ ToolCrashes(Range(list_of_checks)))
        => ToolCrashes(Range(result))

\* deduce_crashing_check has returned
Returned == bpc \in {"deduced", "done"}

\* C17: if the error stream of the first run holds the marker
\* ASTMatcher: Processing '<X>' at any position, deduce_crashing_check
\* returns the one-element list <<X>> and neither enumerates the checks nor
\* runs the tool again.
C17_FastPathReturnsCheck ==
    (bpc # "crash" /\ Contains(stderr, Marker(CheckName))) =>
        /\ bpc = "deduced"
        /\ result = <<CheckName>>
        /\ runs = 0

\* the search runs to its end: every call returns (no step of the search
\* waits for anything but the tool run it has started)
SpecBisectLive == InitBisect /\ [][NextBisect]_vars /\ WF_vars(NextBisect)

\* a step in which a call of the search recurses
Recursing == runs' = runs + 1 /\ Len(stack') = Len(stack) + 1

\* C18: the binary search terminates for every check list and every crash
\* predicate: each of the two recursive calls gets a strictly shorter,
\* non-empty part, the two parts concatenated are the parent list; on the
\* empty check list the search returns the empty result without a tool run.
C18_SearchTerminates ==
    /\ [][Recursing =>
             /\ stack'[1] \o stack'[2] = Head(stack)
             /\ Len(stack'[1]) \in 1..(Len(Head(stack)) - 1)
             /\ Len(stack'[2]) \in 1..(Len(Head(stack)) - 1)]_vars
    /\ []((bpc = "done" /\ list_of_checks = <<>>) =>
             (result = <<>> /\ runs = 0))
    /\ [](runs <= 2 * Len(list_of_checks))
    /\ <>Returned

\* the search has ended on a non-monotone predicate after a full descent
C18_Witness ==
    /\ bpc = "done"
    /\ Len(list_of_checks) = MaxChecks
    /\ crash_cores = {}
    /\ Cardinality(crash_sets) = MaxChecks - 1
    /\ runs = MaxChecks - 1

(***************************************************************************)
(* Interestingness test: the text of test.sh, written as shell words, and  *)
(* its execution by the shell.  The words: "#!" the interpreter line,      *)
(* "&&", "!", "timeout" with its duration ("T" for args.timeout, "None"    *)
(* for an unset one), and the commands: "VC" the verifying compiler with   *)
(* its arguments, "CC" the rewritten compile command with its redirection, *)
(* "IC" the interesting command, "None" the text of an unset compiler,     *)
(* "TIDY1", "TIDY2", ... the diagnostic tool with its redirection, in its  *)
(* first, second, ... run.  args.grep, args.grep_file (lib/grep.py is not  *)
(* modelled) and args.require_post_compile are unset.                      *)
(***************************************************************************)
Outcomes == {"ok", "fail", "hang"}

Configurations ==
    [compile_error : BOOLEAN, verifying_compiler : BOOLEAN,
     verifying_compiler_args : BOOLEAN, timeout : BOOLEAN,
     interesting_command : BOOLEAN]

\* the arguments of the tidy sub-command: no compile_error, no interesting
\* command; crash and a repeat count
TidyConfigurations ==
    [compile_error : {FALSE}, verifying_compiler : {FALSE},
     verifying_compiler_args : {FALSE}, interesting_command : {FALSE},
     timeout : BOOLEAN, crash : BOOLEAN, repeat : 1..MaxRepeat]

\* the k-th run of the diagnostic tool
TidyRun(k) == "TIDY" \o ToString(k)

\* f"! timeout {args.timeout} "
NotTimeout(duration) == <<"!", "timeout", duration>>

\* the overriding arguments when given, else those derived from the command
verifying_compiler_args(a) ==
    IF a.verifying_compiler_args THEN "args_override" ELSE "args_derived"

\* lib/setup.py, create_interestingness_test
create_interestingness_test(a) ==
    LET verify == IF a.compile_error /\ a.verifying_compiler
                  THEN <<"VC", verifying_compiler_args(a), "&&">> ELSE <<>>
        wrap == IF a.compile_error /\ a.timeout THEN NotTimeout("T") ELSE <<>>
        tail ==
            IF a.interesting_command
            THEN <<"&&">> \o (IF a.timeout THEN NotTimeout("T") ELSE <<>>)
                     \o <<"IC">>
            ELSE <<>>
    IN  <<"#!">> \o verify \o wrap \o <<"CC">> \o tail

\* driver/compiler_crash.py, CompilerCrashDriver.create_interestingness_test
CompilerCrashDriver_create_interestingness_test(a) ==
    LET wrap == IF a.timeout THEN NotTimeout("T") ELSE <<>>
        compiler == IF a.verifying_compiler THEN "VC" ELSE "None"
    IN  <<"#!">> \o wrap \o <<compiler, verifying_compiler_args(a), "&&">>
            \o wrap \o <<"CC">>

\* reducer/reducer.py, create_interestingness_test
reducer_create_interestingness_test(a) ==
    LET verify == IF a.verifying_compiler
                  THEN <<"VC", verifying_compiler_args(a), "&&">> ELSE <<>>
        compile ==
            IF a.compile_error
            THEN verify \o (IF a.timeout THEN <<"!", "CC">>
                            ELSE NotTimeout("None") \o <<"CC">>)
            ELSE <<"CC">>
        tail ==
            IF a.interesting_command
            THEN (IF a.timeout THEN <<"&&">> \o NotTimeout("T") \o <<"IC">>
                  ELSE <<"&&", "IC">>)
            ELSE <<>>
    IN  <<"#!">> \o compile \o tail

\* " && ".join(f" {tool} > log.txt 2>&1 " for _ in range(args.repeat))
RECURSIVE JoinedRuns(_, _)
JoinedRuns(k, repeat) ==
    IF k > repeat THEN <<>>
    ELSE (IF k > 1 THEN <<"&&">> ELSE <<>>) \o <<TidyRun(k)>>
             \o JoinedRuns(k + 1, repeat)

\* driver/clang_tidy.py, ClangTidyDriver.create_interestingness_test
ClangTidyDriver_create_interestingness_test(a) ==
    LET wrap == IF a.timeout THEN NotTimeout("T") ELSE <<>>
        crash == IF a.crash THEN <<"!">> ELSE <<>>
    IN  <<"#!">> \o wrap \o <<"CC">> \o <<"&&">> \o wrap \o crash
            \o JoinedRuns(1, a.repeat)

\* reducer/reducer.py, main: the combinations of flags it refuses
reducer_main_accepts(a) ==
    /\ ~(a.compile_error /\ ~a.verifying_compiler)
    /\ ~(a.verifying_compiler_args /\ ~a.verifying_compiler)

(* ---- the shell ---- *)
\* the script without its interpreter line
ScriptBody(words) ==
    IF words # <<>> /\ Head(words) = "#!" THEN Tail(words) ELSE words

FirstAnd(words) ==
    IF \E i \in 1..Len(words) : words[i] = "&&"
    THEN CHOOSE i \in 1..Len(words) :
            words[i] = "&&" /\ \A j \in 1..(i - 1) : words[j] # "&&"
    ELSE 0

\* the operands of the && list, in order
RECURSIVE AndList(_)
AndList(words) ==
    IF FirstAnd(words) = 0 THEN <<words>>
    ELSE <<SubSeq(words, 1, FirstAnd(words) - 1)>>
            \o AndList(SubSeq(words, FirstAnd(words) + 1, Len(words)))

\* one operand: [!] [timeout DURATION] COMMAND [ARGUMENTS]
Pipeline(words) ==
    LET negated == words # <<>> /\ Head(words) = "!"
        rest == IF negated THEN Tail(words) ELSE words
        timed == rest # <<>> /\ Head(rest) = "timeout"
    IN  [negated |-> negated,
         timed |-> timed,
         duration |-> IF timed THEN rest[2] ELSE "",
         command |-> IF timed THEN rest[3] ELSE rest[1]]

\* whether the command of the operand is started at all:
\* timeout refuses a duration it cannot parse
Started(p) == ~(p.timed /\ p.duration = "None")

\* what the command does: an unset compiler's text "None" names no program,
\* and neither does a "!" that is not the first word of the operand
Outcome(p) ==
    IF p.command \in {"None", "!"} THEN "missing" ELSE tools[p.command]

\* the operand never returns: the command hangs and no timeout stops it
Hangs(p) == Started(p) /\ ~p.timed /\ Outcome(p) = "hang"

\* exit status of the command, with its timeout wrapper if any
CommandStatus(p) ==
    IF ~Started(p) THEN 125
    ELSE IF Outcome(p) = "hang" THEN 124
    ELSE IF Outcome(p) = "missing" THEN 127
    ELSE IF Outcome(p) = "fail" THEN 1
    ELSE 0

\* exit status of the operand: ! inverts it
PipelineStatus(p) ==
    IF p.negated THEN (IF CommandStatus(p) = 0 THEN 1 ELSE 0)
    ELSE CommandStatus(p)

InitScript ==
    /\ \/ /\ args \in Configurations
          /\ tools \in [VC : Outcomes, CC : Outcomes, IC : Outcomes]
       \/ /\ args \in TidyConfigurations
          /\ tools \in [{"CC"} \cup {TidyRun(k) : k \in 1..MaxRepeat} -> Outcomes]
    /\ file_content = <<>>
    /\ segment = 0
    /\ ran = {}
    /\ exit_code = -1
    /\ variant = "none"
    /\ spc = "config"
    /\ BisectIdle
    /\ DriverIdle
    /\ SetupIdle

WriteTest(name, words) ==
    /\ spc = "config"
    /\ file_content' = words
    /\ variant' = name
    /\ segment' = 1
    /\ spc' = "written"
    /\ UNCHANGED <<args, tools, ran, exit_code>>
    /\ UNCHANGED <<bisectVars, driverVars, setupVars>>

WriteTestSetup == WriteTest("setup", create_interestingness_test(args))

WriteTestCompilerCrash ==
    WriteTest("compiler_crash",
              CompilerCrashDriver_create_interestingness_test(args))

WriteTestReducer ==
    /\ reducer_main_accepts(args)
    /\ WriteTest("reducer", reducer_create_interestingness_test(args))

WriteTestClangTidy ==
    /\ args \in TidyConfigurations
    /\ WriteTest("clang_tidy", ClangTidyDriver_create_interestingness_test(args))

\* sh test.sh: the next operand of the && list runs; the list ends with the
\* first nonzero status or with the status of its last operand
RunOperand ==
    /\ spc = "written"
    /\ LET operands == AndList(ScriptBody(file_content))
           p == Pipeline(operands[segment])
       IN  /\ ran' = IF Started(p) /\ Outcome(p) # "missing"
                     THEN ran \cup {p.command} ELSE ran
           /\ IF Hangs(p)
              THEN /\ spc' = "hung"
                   /\ UNCHANGED <<segment, exit_code>>
              ELSE IF PipelineStatus(p) # 0 \/ segment = Len(operands)
              THEN /\ spc' = "exited"
                   /\ exit_code' = PipelineStatus(p)
                   /\ UNCHANGED segment
              ELSE /\ segment' = segment + 1
                   /\ UNCHANGED <<spc, exit_code>>
    /\ UNCHANGED <<args, tools, file_content, variant>>
    /\ UNCHANGED <<bisectVars, driverVars, setupVars>>

NextScript ==
    \/ WriteTestSetup
    \/ WriteTestCompilerCrash
    \/ WriteTestReducer
    \/ WriteTestClangTidy
    \/ RunOperand

SpecScript == InitScript /\ [][NextScript]_vars

\* crash-verification mode: the compile step is expected to crash and a
\* verifying compiler is configured
CrashVerificationMode ==
    /\ args.verifying_compiler
    /\ variant = "compiler_crash" \/ args.compile_error

\* the crashing compile step exits nonzero, or times out under a timeout
CompileStepFails ==
    tools.CC = "fail" \/ (args.timeout /\ tools.CC = "hang")

\* C4: in crash-verification mode test.sh exits 0 iff the crashing compile
\* step exits nonzero (or times out, with a timeout configured) and the
\* verifying compiler exits 0.  (No interesting command is given.)
C4_CrashTestExit ==
    (spc \in {"exited", "hung"} /\ CrashVerificationMode
        /\ ~args.interesting_command)
        => ((spc = "exited" /\ exit_code = 0)
               <=> (CompileStepFails /\ tools.VC = "ok"))

\* plain-success mode with an interesting command, as written by lib/setup.py
\* or reducer.py
PlainSuccessWithCommand ==
    /\ variant \in {"setup", "reducer"}
    /\ ~args.compile_error
    /\ args.interesting_command

\* C16: in plain-success mode with an interesting command, timeout set or
\* unset, test.sh exits 0 iff the compile command exits 0 and the interesting
\* command then exits 0; the interesting command is not run when the
\* compile step fails.
C16_PlainSuccessExit ==
    (spc \in {"exited", "hung"} /\ PlainSuccessWithCommand) =>
        /\ (spc = "exited" /\ exit_code = 0)
               <=> (tools.CC = "ok" /\ tools.IC = "ok")
        /\ tools.CC # "ok" => "IC" \notin ran

\* diagnostic-tool mode with the crash requirement
DiagnosticCrashMode == variant = "clang_tidy" /\ args.crash

\* run k of the diagnostic tool exits nonzero (a crash), or is killed by
\* the timeout that wraps it
TidyRunFails(k) ==
    tools[TidyRun(k)] = "fail" \/ (args.timeout /\ tools[TidyRun(k)] = "hang")

\* C19: in diagnostic-tool mode with the crash requirement, for timeout set
\* or unset and every repeat count, test.sh runs the diagnostic tool only
\* after the compile step succeeded and exits 0 only if the tool exits
\* nonzero in each of its N runs.
C19_DiagnosticCrashExit ==
    (spc \in {"exited", "hung"} /\ DiagnosticCrashMode) =>
        /\ (\E k \in 1..args.repeat : TidyRun(k) \in ran) => tools.CC = "ok"
        /\ (spc = "exited" /\ exit_code = 0) =>
               \A k \in 1..args.repeat : TidyRunFails(k)

(***************************************************************************)
(* preprocess_file and the reduce loop.  File contents are the numbers     *)
(* 1..MaxContent (0: no such file); the original source file holds 1.      *)
(* The preprocessor and test.sh are deterministic: the preprocessor is a   *)
(* function of the content it reads (a failing preprocessor may write the  *)
(* same or any other content), test.sh exits 0 exactly on the contents of  *)
(* `interesting`.  The database holds a matching entry.                    *)
(***************************************************************************)
Contents == 1..MaxContent

\* call(["sh", "test.sh"]) on a working file holding `content`
TestExit(content) == IF content \in interesting THEN 0 ELSE 1

\* call(c): the preprocessor reads the working file and writes its output
\* over it (-E -P -o cwd/<name>)
Candidate(content) == preprocessor[content]

\* mutant: the backup is never copied back
Restored_NoRollback(saved, candidate, exit) == candidate

\* mutant: the test of the return code is inverted
Restored_Inverted(saved, candidate, exit) ==
    IF exit = 0 THEN saved ELSE candidate

\* lines 40-43: the backup is copied back when test.sh exits nonzero
Restored(saved, candidate, exit) == IF exit # 0 THEN saved ELSE candidate

\* preprocess_file on a working file holding `content`: the files it leaves
preprocess_file(content) ==
    [backup |-> content,
     file |-> Restored(content, Candidate(content),
                       TestExit(Candidate(content))),
     last |-> [before |-> content,
               candidate |-> Candidate(content),
               exit |-> TestExit(Candidate(content))]]

\* lib/prompt.py, prompt_yes_no(question, assume_yes = True)
Answers == {"y", "Y", "yes", "n", "N", "no", "", "maybe"}

lower(text) == IF text = "Y" THEN "y" ELSE IF text = "N" THEN "n" ELSE text

prompt_yes_no(answer, assume_yes) ==
    IF lower(answer) \in {"y", "yes"} THEN TRUE
    ELSE IF lower(answer) \in {"n", "no"} THEN FALSE
    ELSE IF lower(answer) = "" THEN assume_yes
    ELSE FALSE

\* str(n) for n >= 0: the decimal digits of n
Digit(d) == <<"0", "1", "2", "3", "4", "5", "6", "7", "8", "9">>[d + 1]

RECURSIVE str(_)
str(n) == IF n < 10 THEN <<Digit(n)>> ELSE str(n \div 10) \o <<Digit(n % 10)>>

\* mutant: every snapshot gets the suffix of the first one
snapshot_suffix_Fixed(k) == str(0)

\* line 246: the snapshot of pass k is cwd/(name + str(iteration))
snapshot_suffix(k) == str(k)

\* copyfile(src, dst) on the snapshot files: dst is created or overwritten
copyfile(files, content, dst) ==
    [f \in DOMAIN files \cup {dst} |-> IF f = dst THEN content ELSE files[f]]

\* mutant: the return code of the reducer is not looked at
raises_Never(status) == FALSE

\* lines 241-242: a nonzero return code raises RuntimeError
raises(status) == status # 0

\* mutant: a further pass starts at the reducer call
loop_head_AtCall == "Validated"

\* line 238: a further pass of `while True` starts at preprocess_file
loop_head == "ReducingAgain"

InitDriver ==
    /\ interesting \in SUBSET Contents
    /\ preprocessor \in [Contents -> Contents]
    /\ prompt_rerun \in BOOLEAN
    /\ original_file = 1
    /\ file = 0
    /\ backup = 0
    /\ snapshots = <<>>
    /\ iteration = 0
    /\ return_code = -1
    /\ prompted = <<>>
    /\ last = <<>>
    /\ calls = 0
    /\ pc = "Init"
    /\ BisectIdle
    /\ ScriptIdle
    /\ SetupIdle

\* setup_test_folder: the source file is copied into the sandbox, test.sh is
\* written and preprocess_file runs on the copy
setup_test_folder ==
    /\ pc = "Init"
    /\ file' = preprocess_file(original_file).file
    /\ backup' = preprocess_file(original_file).backup
    /\ last' = preprocess_file(original_file).last
    /\ calls' = calls + 1
    /\ pc' = "SandboxReady"
    /\ UNCHANGED <<interesting, preprocessor, prompt_rerun, original_file,
                   snapshots, iteration, return_code, prompted>>
    /\ UNCHANGED <<bisectVars, scriptVars, setupVars>>

\* reduce, line 239: preprocess_file at the head of each pass of the loop
reduce_preprocess ==
    /\ pc \in {"SandboxReady", "ReducingAgain"}
    /\ file' = preprocess_file(file).file
    /\ backup' = preprocess_file(file).backup
    /\ last' = preprocess_file(file).last
    /\ calls' = calls + 1
    /\ pc' = "Validated"
    /\ UNCHANGED <<interesting, preprocessor, prompt_rerun, original_file,
                   snapshots, iteration, return_code, prompted>>
    /\ UNCHANGED <<bisectVars, scriptVars, setupVars>>

\* reduce, line 240: the external reducer is started on the working file
reduce_call ==
    /\ pc = "Validated"
    /\ pc' = "Reducing"
    /\ UNCHANGED <<interesting, preprocessor, prompt_rerun, original_file, file,
                   backup, snapshots, iteration, return_code, prompted, last,
                   calls>>
    /\ UNCHANGED <<bisectVars, scriptVars, setupVars>>

\* the reducer exits: it leaves the file as it was or a variant on which
\* test.sh exited 0; a nonzero return code raises RuntimeError (line 242)
reduce_returns ==
    /\ pc = "Reducing"
    /\ \E status \in {0, 1}, reduced \in {file} \cup interesting :
          /\ file' = reduced
          /\ return_code' = status
          /\ pc' = IF raises(status) THEN "Fatal" ELSE "Halted"
    /\ UNCHANGED <<interesting, preprocessor, prompt_rerun, original_file,
                   backup, snapshots, iteration, prompted, last, calls>>
    /\ UNCHANGED <<bisectVars, scriptVars, setupVars>>

\* line 243: no prompt is configured, or the user declines: the loop ends
reduce_break ==
    /\ pc = "Halted"
    /\ \/ /\ ~prompt_rerun
          /\ UNCHANGED prompted
       \/ /\ prompt_rerun
          /\ \E answer \in Answers : ~prompt_yes_no(answer, TRUE)
          /\ prompted' = Append(prompted, FALSE)
    /\ pc' = "Done"
    /\ UNCHANGED <<interesting, preprocessor, prompt_rerun, original_file, file,
                   backup, snapshots, iteration, return_code, last, calls>>
    /\ UNCHANGED <<bisectVars, scriptVars, setupVars>>

\* lines 243-247: the user confirms: the reduced file is copied to
\* <name><iteration> and the counter goes up
reduce_continue ==
    /\ pc = "Halted"
    /\ iteration < MaxIterations
    /\ prompt_rerun
    /\ \E answer \in Answers : prompt_yes_no(answer, TRUE)
    /\ prompted' = Append(prompted, TRUE)
    /\ snapshots' = copyfile(snapshots, file, snapshot_suffix(iteration))
    /\ iteration' = iteration + 1
    /\ pc' = loop_head
    /\ UNCHANGED <<interesting, preprocessor, prompt_rerun, original_file, file,
                   backup, return_code, last, calls>>
    /\ UNCHANGED <<bisectVars, scriptVars, setupVars>>

NextDriver ==
    \/ setup_test_folder
    \/ reduce_preprocess
    \/ reduce_call
    \/ reduce_returns
    \/ reduce_break
    \/ reduce_continue

SpecDriver == InitDriver /\ [][NextDriver]_vars

\* The driver is one sequential process: each external call returns and the
\* next statement runs (weak fairness of the steps); a user who is asked
\* again and again eventually declines (strong fairness of the break).
SpecDriverLive ==
    /\ InitDriver
    /\ [][NextDriver]_vars
    /\ WF_vars(NextDriver)
    /\ SF_vars(reduce_break)

\* the reducer has returned a nonzero exit status
ReducerFailed == return_code \notin {-1, 0}

\* number of continuations the user has confirmed
Confirmed == Cardinality({i \in DOMAIN prompted : prompted[i]})

\* C12: when the external reducer exits nonzero the run is in its fatal
\* state, from which no step is taken (no preprocess step, prompt, snapshot
\* or reducer call), and the working file, its backup and every snapshot
\* made so far are still in the sandbox.
C12_ReducerFailureIsFatal ==
    /\ [](ReducerFailed =>
            /\ pc = "Fatal"
            /\ file # 0
            /\ backup # 0
            /\ Cardinality(DOMAIN snapshots) = Confirmed)
    /\ [][~ReducerFailed]_vars

\* the reducer failed in a second pass, after one snapshot was made
C12_Witness ==
    /\ pc = "Fatal"
    /\ return_code = 1
    /\ Confirmed = 1
    /\ DOMAIN snapshots = {<<"0">>}

\* the arrows of the state machine; Halted is the point of Reducing where
\* the reducer has exited with 0 and the question of a further pass is open
Arrows ==
    {<<"Init", "SandboxReady">>, <<"SandboxReady", "Validated">>,
     <<"Validated", "Reducing">>, <<"Reducing", "Halted">>,
     <<"Reducing", "Fatal">>, <<"Halted", "Done">>,
     <<"Halted", "ReducingAgain">>, <<"ReducingAgain", "Validated">>}

\* a step of the driver follows an arrow
FollowsArrow == <<pc, pc'>> \in Arrows

\* C13: the driver follows Init, SandboxReady, Validated, Reducing, then
\* Done or ReducingAgain back to Validated; Validated is entered only by a
\* preprocess_file call and the reducer is started only from Validated; Done
\* is entered only after a reducer exit of 0, with no prompt configured or
\* the user declining; and if the reducer always exits 0 (and the user
\* eventually declines) the driver eventually reaches Done.
C13_StateMachine ==
    /\ [][FollowsArrow]_vars
    /\ [][pc' = "Validated" =>
             /\ calls' = calls + 1
             /\ last' = preprocess_file(file).last
             /\ file' = preprocess_file(file).file]_vars
    /\ [][pc' = "Reducing" => pc = "Validated"]_vars
    /\ [][pc' = "Done" =>
             /\ pc = "Halted"
             /\ return_code = 0
             /\ \/ ~prompt_rerun /\ prompted' = prompted
                \/ prompt_rerun /\ prompted' = Append(prompted, FALSE)]_vars
    /\ ([](~ReducerFailed) => <>(pc = "Done"))

\* a run that was continued once and then declined
C13_Witness ==
    /\ pc = "Done"
    /\ prompt_rerun
    /\ prompted = <<TRUE, FALSE>>
    /\ calls = 3

\* C14: the k-th confirmed continuation (k from 0) copies the working file
\* as the reducer left it to <name><k>, a name no snapshot has yet, and
\* leaves the working file and the other snapshots alone; the counter and
\* the number of snapshots equal the number of confirmed continuations.
C14_Snapshots ==
    /\ [](/\ iteration = Confirmed
          /\ Cardinality(DOMAIN snapshots) = Confirmed
          /\ DOMAIN snapshots = {str(k) : k \in 0..(Confirmed - 1)})
    /\ [][Confirmed' = Confirmed + 1 =>
             /\ pc = "Halted"
             /\ str(Confirmed) \notin DOMAIN snapshots
             /\ snapshots'[str(Confirmed)] = file
             /\ \A f \in DOMAIN snapshots : snapshots'[f] = snapshots[f]
             /\ file' = file]_vars

\* two snapshots that hold different generations of the file
C14_Witness ==
    /\ Confirmed = 2
    /\ DOMAIN snapshots = {<<"0">>, <<"1">>}
    /\ snapshots[<<"0">>] # snapshots[<<"1">>]

\* preprocess_file has just returned
JustPreprocessed == pc \in {"SandboxReady", "Validated"}

\* C5: after preprocess_file returns, the working file is its content
\* before the call if test.sh exited nonzero on the candidate, else the
\* candidate; the backup holds the content before the call and the driver
\* goes on (it is in no fatal state).
C5_RollbackOrCandidate ==
    JustPreprocessed =>
        /\ last.exit # 0 => (file = last.before /\ backup = last.before)
        /\ last.exit = 0 => file = last.candidate
        /\ last.exit = TestExit(last.candidate)

\* a rollback happened and mattered: the candidate differed and was rejected
C5_Witness ==
    /\ pc = "Validated"
    /\ last.exit # 0
    /\ last.candidate # last.before
    /\ file = last.before

\* C6: whenever the external reducer is started, test.sh exits 0 on the
\* current content of the working file.
C6_ReducerSeesInteresting == pc = "Reducing" => TestExit(file) = 0

\* the file after one preprocess_file on the original content
Once == preprocess_file(original_file).file

\* preprocess_file has run twice in succession on an interesting file
RanTwice == pc = "Validated" /\ calls = 2 /\ TestExit(original_file) = 0

\* C7 as stated: for an interesting file, two preprocess_file calls in
\* succession leave the file as one call does.
C7_Idempotent == RanTwice => file = Once

\* C7 amended: ... provided the first candidate was rejected or the
\* preprocessor maps the accepted candidate to itself.
C7_IdempotentOnFixedPoint ==
    (RanTwice /\ (TestExit(Candidate(original_file)) # 0
                    \/ Candidate(Candidate(original_file)) = Candidate(original_file)))
        => file = Once

\* an accepted candidate that differs from the original and is a fixed
\* point of the preprocessor, after the second call
C7_Witness ==
    /\ RanTwice
    /\ Candidate(original_file) # original_file
    /\ TestExit(Candidate(original_file)) = 0
    /\ Candidate(Candidate(original_file)) = Candidate(original_file)
    /\ file = Candidate(original_file)

(***************************************************************************)
(* Command extraction and transformation.  A text is the sequence of its   *)
(* characters, so that str.replace and re.sub act on it as in the code.    *)
(* The database is a sequence of entries; the code transforms the raw text *)
(* of the file and parses it afterwards, which for a database whose fields *)
(* hold no quotes and are followed by a space-free delimiter is the        *)
(* transformation of each field.                                           *)
(***************************************************************************)
\* Python's s.replace(old, new): leftmost occurrences, not overlapping, one pass
RECURSIVE ReplaceFrom(_, _, _, _)
ReplaceFrom(s, i, old, new) ==
    LET hits == {k \in i..Len(s) : MatchesAt(s, k, old)}
    IN  IF hits = {} THEN SubSeq(s, i, Len(s))
        ELSE SubSeq(s, i, Min(hits) - 1) \o new
                 \o ReplaceFrom(s, Min(hits) + Len(old), old, new)

str_replace(s, old, new) == ReplaceFrom(s, 1, old, new)

(* ---- pathlib.Path on the text of a path ---- *)
LastSlash(path) ==
    IF \E i \in 1..Len(path) : path[i] = "/"
    THEN Max({i \in 1..Len(path) : path[i] = "/"})
    ELSE 0

\* Path.name
PathName(path) == SubSeq(path, LastSlash(path) + 1, Len(path))

\* str(Path.parent)
PathParent(path) ==
    IF LastSlash(path) = 0 THEN <<".">>
    ELSE IF LastSlash(path) = 1 THEN <<"/">>
    ELSE SubSeq(path, 1, LastSlash(path) - 1)

\* the file system: the directory /w is a symbolic link to /proj
LinkName == <<"/", "w">>
LinkTarget == <<"/", "p", "r", "o", "j">>

\* str(Path.absolute()): a relative path is joined to the working directory
PathAbsolute(path) ==
    IF path # <<>> /\ path[1] = "/" THEN path
    ELSE IF process_cwd = <<"/">> THEN process_cwd \o path
    ELSE process_cwd \o <<"/">> \o path

\* str(Path.resolve()): absolute, with symbolic links followed
PathResolve(path) ==
    IF MatchesAt(PathAbsolute(path), 1, LinkName \o <<"/">>)
    THEN LinkTarget \o SubSeq(PathAbsolute(path), Len(LinkName) + 1,
                              Len(PathAbsolute(path)))
    ELSE PathAbsolute(path)

(* ---- the texts of the code ---- *)
DashC == <<"-", "c", " ">>
DashO == <<"-", "o", " ">>
DashI == <<"-", "I">>
OutputCppO == <<"-", "o", " ", "o", "u", "t", "p", "u", "t", ".", "c", "p", "p", ".", "o">>
WfatalErrors == <<"-", "W", "f", "a", "t", "a", "l", "-", "e", "r", "r", "o", "r", "s", " ">>
Werror == <<"-", "W", "e", "r", "r", "o", "r">>

\* [\w-]: the characters a diagnostic group is made of
GroupChars ==
    {"a", "b", "c", "d", "e", "f", "g", "h", "i", "j", "k", "l", "m", "n",
     "o", "p", "q", "r", "s", "t", "u", "v", "w", "x", "y", "z",
     "A", "B", "C", "D", "E", "F", "G", "H", "I", "J", "K", "L", "M", "N",
     "O", "P", "Q", "R", "S", "T", "U", "V", "W", "X", "Y", "Z",
     "0", "1", "2", "3", "4", "5", "6", "7", "8", "9", "_", "-"}

\* re: where the match of "-o [^ ]*\.o" that starts at i ends (0: no match);
\* [^ ]* is greedy, so the match ends with the last ".o" before the next space
OutputMatchEnd(s, i) ==
    IF ~MatchesAt(s, i, DashO) THEN 0
    ELSE LET run == RunEnd(s, i + Len(DashO), {" "}, FALSE)
             ends == {k \in (i + Len(DashO) + 1)..run :
                         s[k - 1] = "." /\ s[k] = "o"}
         IN  IF ends = {} THEN 0 ELSE Max(ends)

\* re.sub(r"-o [^ ]*\.o", "-o output.cpp.o", s)
RECURSIVE SubOutputFrom(_, _)
SubOutputFrom(s, i) ==
    LET hits == {k \in i..Len(s) : OutputMatchEnd(s, k) # 0}
    IN  IF hits = {} THEN SubSeq(s, i, Len(s))
        ELSE SubSeq(s, i, Min(hits) - 1) \o OutputCppO
                 \o SubOutputFrom(s, OutputMatchEnd(s, Min(hits)) + 1)

\* re: where the match of "-Werror(=[\w-]*)?" that starts at i ends (0: none)
WerrorMatchEnd(s, i) ==
    IF ~MatchesAt(s, i, Werror) THEN 0
    ELSE IF i + Len(Werror) <= Len(s) /\ s[i + Len(Werror)] = "="
    THEN RunEnd(s, i + Len(Werror) + 1, GroupChars, TRUE)
    ELSE i + Len(Werror) - 1

\* re.sub(r"-Werror(=[\w-]*)?", "", s): one pass from the left
RECURSIVE SubWerrorFrom(_, _)
SubWerrorFrom(s, i) ==
    LET hits == {k \in i..Len(s) : WerrorMatchEnd(s, k) # 0}
    IN  IF hits = {} THEN SubSeq(s, i, Len(s))
        ELSE SubSeq(s, i, Min(hits) - 1)
                 \o SubWerrorFrom(s, WerrorMatchEnd(s, Min(hits)) + 1)

\* lib/setup.py, replace_path
replace_path(string, path, new_path_str) ==
    str_replace(
        str_replace(
            str_replace(string, path, new_path_str),
            PathAbsolute(path), new_path_str),
        PathResolve(path), new_path_str)

\* lib/setup.py, transform_compile_commands
transform_compile_commands(comp_db_entry, source_file) ==
    LET replaced == replace_path(comp_db_entry, source_file,
                                 PathName(source_file))
        output == SubOutputFrom(replaced, 1)
        include == str_replace(output, DashC,
                               DashI \o PathParent(source_file) \o <<" ">>
                                   \o DashC)
        fatal == str_replace(include, DashC, WfatalErrors \o DashC)
    IN  SubWerrorFrom(fatal, 1)

\* lib/setup.py, get_compile_commands_entry_for_file: the transformed
\* entries whose file field holds the base name
get_compile_commands_entry_for_file(source_file, entries) ==
    SelectSeq(
        [k \in 1..Len(entries) |->
            [file |-> transform_compile_commands(entries[k].file, source_file),
             command |-> transform_compile_commands(entries[k].command,
                                                    source_file)]],
        LAMBDA x : Contains(x.file, PathName(source_file)))

(* ---- the inputs ---- *)
Root == <<"/">>
Proj == <<"/", "p", "r", "o", "j">>
MainCpp == <<"m", "a", "i", "n", ".", "c", "p", "p">>
OtherCpp == <<"o", "t", "h", "e", "r", ".", "c", "p", "p">>
Lib == <<"/", "l", "i", "b">>
Compiler == <<"c", "l", "a", "n", "g", "+", "+">>
MainO == <<"m", "a", "i", "n", ".", "o">>
BuildMainCppO == <<"b", "u", "i", "l", "d", "/", "m", "a", "i", "n", ".", "c", "p", "p", ".", "o">>
WerrorGroup == <<"-", "W", "e", "r", "r", "o", "r", "=", "u", "n", "u", "s", "e", "d">>
WerrorNested == <<"-", "W", "e", "r", "-", "W", "e", "r", "r", "o", "r", "r", "o", "r">>

\* args.file as given with the working directory it is given in; all name
\* the file /proj/main.cpp
Targets ==
    {<<Proj \o <<"/">> \o MainCpp, Proj>>,
     <<Tail(Proj) \o <<"/">> \o MainCpp, Root>>,
     <<MainCpp, Proj>>,
     <<LinkName \o <<"/">> \o MainCpp, Proj>>}

\* the file fields of the database
FileFields ==
    {Proj \o <<"/">> \o MainCpp,
     LinkName \o <<"/">> \o MainCpp,
     Proj \o Lib \o <<"/">> \o MainCpp,
     Proj \o <<"/">> \o OtherCpp}

OutputFlags == {<<>>, DashO \o MainO, DashO \o BuildMainCppO}

WarningFlags == {<<>>, Werror, WerrorGroup, WerrorNested}

Spaced(flag) == IF flag = <<>> THEN <<>> ELSE <<" ">> \o flag

\* the dialects of the projects: none given, c++20, gnu++17
StdEq == <<"-", "s", "t", "d", "=">>
Cpp17 == <<"c", "+", "+", "1", "7">>
Cpp20 == <<"c", "+", "+", "2", "0">>
Gnu17 == <<"g", "n", "u", "+", "+", "1", "7">>
StdFlags == {<<>>, StdEq \o Cpp20, StdEq \o Gnu17}

\* the flags of a build, <<std, output, warning>>: a c++20 project with any
\* output and warning flags, or a project of any dialect with neither
Flags ==
    ({StdEq \o Cpp20} \X OutputFlags \X WarningFlags)
        \cup (StdFlags \X {<<>>} \X {<<>>})

\* the command of the build for one file: clang++ -std=c++20 -c <file> ...
Command(std, field, output, warning) ==
    Compiler \o Spaced(std) \o <<" ">> \o DashC \o field \o Spaced(output)
        \o Spaced(warning)

Databases ==
    UNION {
        {[k \in 1..n |-> [file |-> fields[k],
                          command |-> Command(flags[1], fields[k],
                                              flags[2], flags[3])]] :
            fields \in [1..n -> FileFields], flags \in Flags} :
        n \in 0..MaxEntries}

(* ---- the paths the steps write ---- *)
\* args.build_dir and the sandbox, a fresh directory under the build tree
build_dir == Proj \o <<"/", "b", "u", "i", "l", "d">>
cwd == build_dir \o <<"/", "r", "e", "d", "u", "c", "e", "r", "/", "0", "a", "1", "b">>

CompileCommandsJson ==
    <<"c", "o", "m", "p", "i", "l", "e", "_", "c", "o", "m", "m", "a", "n", "d", "s", ".", "j", "s", "o", "n">>
TestSh == <<"t", "e", "s", "t", ".", "s", "h">>
LogTxt == <<"l", "o", "g", ".", "t", "x", "t">>
Bckp == <<".", "b", "c", "k", "p">>

\* pathlib's dir / rel, and the file a process started in dir opens as rel
Join(dir, rel) ==
    IF rel # <<>> /\ rel[1] = "/" THEN rel ELSE dir \o <<"/">> \o rel

\* mutant: the transformed database is written back to the build directory
write_compile_commands_InPlace(dir) == Join(build_dir, CompileCommandsJson)

\* write_compile_commands: the file it writes
write_compile_commands(dir) == Join(PathAbsolute(dir), CompileCommandsJson)

\* Python's s.split(" "): the pieces between the spaces, empty ones kept
RECURSIVE SplitFrom(_, _)
SplitFrom(s, i) ==
    LET spaces == {k \in i..Len(s) : s[k] = " "}
    IN  IF spaces = {} THEN <<SubSeq(s, i, Len(s))>>
        ELSE <<SubSeq(s, i, Min(spaces) - 1)>>
                 \o SplitFrom(s, Min(spaces) + 1)

split(s) == SplitFrom(s, 1)

\* the object file a compile of `source` writes when no -o is given
ObjectName(source) ==
    LET name == PathName(source)
        dots == {k \in 1..Len(name) : name[k] = "."}
    IN  IF dots = {} THEN name \o <<".", "o">>
        ELSE SubSeq(name, 1, Max(dots)) \o <<"o">>

\* the files a compiler started in `dir` with the arguments argv writes: the
\* value of -o, else the object file of each source named after -c
CompilerWrites(argv, dir) ==
    LET outputs == {k \in 2..Len(argv) : argv[k - 1] = <<"-", "o">>}
        sources == {k \in 2..Len(argv) : argv[k - 1] = <<"-", "c">>}
    IN  IF outputs # {}
        THEN {Join(dir, argv[Max(outputs)])}
        ELSE {Join(dir, ObjectName(argv[k])) : k \in sources}

\* remove_explicit_path
remove_explicit_path(command, dir) == str_replace(command, dir \o <<"/">>, <<>>)

\* test.sh run in dir: the compile step writes its object file, the
\* redirection writes log.txt
TestShWrites(command, dir) ==
    {Join(dir, LogTxt)}
        \cup CompilerWrites(split(remove_explicit_path(command, dir)), dir)

\* preprocess_file(cwd, file_path, compile_command): the files it writes.
\* Line 30 writes the backup, the preprocessor (lines 32-39) writes its -o,
\* test.sh runs (line 40) and on a nonzero exit the backup is copied back
preprocess_file_writes(file_path, command, exit) ==
    {Join(cwd, PathName(file_path)) \o Bckp}
        \cup CompilerWrites(
                 split(str_replace(command, OutputCppO,
                                   <<"-", "E", " ", "-", "P", " ">> \o DashO
                                       \o Join(cwd, PathName(file_path)))),
                 cwd)
        \cup TestShWrites(command, cwd)
        \cup (IF exit # 0 THEN {Join(cwd, PathName(file_path))} ELSE {})

InitSetup ==
    /\ \E target \in Targets :
          /\ args_file = target[1]
          /\ process_cwd = target[2]
    /\ database \in Databases
    /\ compile_commands = <<>>
    /\ sandbox_database = <<>>
    /\ compile_command = <<>>
    /\ reduce_compile_commands = <<>>
    /\ written = {}
    /\ supported = <<>>
    /\ invocation = <<>>
    /\ tpc = "start"
    /\ BisectIdle
    /\ ScriptIdle
    /\ DriverIdle

\* setup_test_folder: the entries are extracted and written to the sandbox
\* and the source file is copied (lines 16-22); the command is that of the
\* first entry (IndexError if none, line 23); test.sh is written and
\* preprocess_file runs (lines 25-26)
setup_compile_commands ==
    /\ tpc = "start"
    /\ compile_commands' =
          get_compile_commands_entry_for_file(args_file, database)
    /\ sandbox_database' = compile_commands'
    /\ IF compile_commands' = <<>>
       THEN /\ tpc' = "fatal"
            /\ written' = {write_compile_commands(cwd),
                           Join(cwd, PathName(args_file))}
            /\ UNCHANGED compile_command
       ELSE /\ tpc' = "ready"
            /\ compile_command' = compile_commands'[1].command
            /\ \E exit \in {0, 1} :
                  written' =
                      {write_compile_commands(cwd),
                       Join(cwd, PathName(args_file)),
                       Join(cwd, TestSh)}
                      \cup preprocess_file_writes(args_file, compile_command',
                                                  exit)
    /\ UNCHANGED <<process_cwd, args_file, database, reduce_compile_commands,
                   supported, invocation>>
    /\ UNCHANGED <<bisectVars, scriptVars, driverVars>>

(* ---- the command line of the reducer ---- *)
\* Python's s.find(sub, start): the index (from 0) of the first occurrence
\* at or after start, -1 if none
find(s, sub, start) ==
    LET hits == {k \in (start + 1)..Len(s) : MatchesAt(s, k, sub)}
    IN  IF hits = {} THEN -1 ELSE Min(hits) - 1

\* Python's s[a:b] for a >= 0 and any b: indices past the end are clipped
\* and a negative b counts from the end
PySlice(s, a, b) ==
    LET lo == IF a > Len(s) THEN Len(s) ELSE a
        hi == IF b < 0 THEN (IF Len(s) + b < 0 THEN 0 ELSE Len(s) + b)
              ELSE IF b > Len(s) THEN Len(s) ELSE b
    IN  IF hi <= lo THEN <<>> ELSE SubSeq(s, lo + 1, hi)

\* s.split(",")[-1]
LastOfSplit(s) ==
    LET commas == {k \in 1..Len(s) : s[k] = ","}
    IN  IF commas = {} THEN s ELSE SubSeq(s, Max(commas) + 1, Len(s))

\* get_cpp_std_from_compile_commands, on the loaded database of the sandbox
get_cpp_std_from_compile_commands(commands) ==
    LET command == commands[1].command
        cpp_std_pos == find(command, StdEq, 0)
    IN  IF cpp_std_pos = -1 THEN Cpp20
        ELSE IF command[cpp_std_pos + 5 + 1] = "g"
        THEN <<"c", "+", "+">>
                 \o PySlice(command, cpp_std_pos + 10, cpp_std_pos + 12)
        ELSE PySlice(command, cpp_std_pos + 6, cpp_std_pos + 11)

ClangDeltaStdFlag == <<"-", "-", "c", "l", "a", "n", "g", "-", "d", "e", "l", "t", "a", "-", "s", "t", "d", " ", "{">>

\* get_csvise_supported_cpp_std, on the output of `reduce_bin --help`
get_csvise_supported_cpp_std(help_msg, cpp_std) ==
    LET clang_delta_std_loc ==
            find(help_msg, ClangDeltaStdFlag, 0) + Len(ClangDeltaStdFlag)
        listed == PySlice(help_msg, clang_delta_std_loc,
                          find(help_msg, <<"}">>, clang_delta_std_loc + 1))
        res == LastOfSplit(listed)
    IN  IF Contains(listed, cpp_std) THEN cpp_std
        ELSE IF res # <<>> THEN res
        ELSE Cpp20

\* the reducers, <<args.reduce_bin, the dialects its help lists>>: two
\* versions of cvise, and creduce, whose help does not show the option
Cvise == <<"c", "v", "i", "s", "e">>
Creduce == <<"c", "r", "e", "d", "u", "c", "e">>
Cpp11 == <<"c", "+", "+", "1", "1">>
Cpp2b == <<"c", "+", "+", "2", "b">>
Reducers ==
    {<<Cvise, <<Cpp11, Cpp17>>>>,
     <<Cvise, <<Cpp11, Cpp17, Cpp20, Cpp2b>>>>,
     <<Creduce, <<>>>>}

\* ",".join(list)
RECURSIVE CommaJoin(_)
CommaJoin(list) ==
    IF list = <<>> THEN <<>>
    ELSE IF Len(list) = 1 THEN list[1]
    ELSE list[1] \o <<",">> \o CommaJoin(Tail(list))

\* the output of `reduce_bin --help` of a reducer that lists `list`
HelpText(reduce_bin, list) ==
    <<"u", "s", "a", "g", "e", ":", " ">> \o reduce_bin \o <<" ", "[", "-", "h", "]", " ", "[", "-", "-", "n", " ", "N", "]">>
        \o (IF list = <<>> THEN <<>>
            ELSE <<" ", "[">> \o ClangDeltaStdFlag \o CommaJoin(list)
                     \o <<"}", "]">>)
        \o <<" ", "[", "-", "-", "t", "o", "-", "u", "t", "f", "8", "]">>

ClangDeltaStdEq == <<"-", "-", "c", "l", "a", "n", "g", "-", "d", "e", "l", "t", "a", "-", "s", "t", "d", "=">>
ToUtf8 == <<"-", "-", "t", "o", "-", "u", "t", "f", "8">>
Jobs == <<"-", "-", "n", "=", "4">>

\* reduce, lines 214-228: the command line (args.jobs and args.timeout
\* unset, cpu_count() is 4)
reduce_invocation(reduce_bin, help_msg, commands, file_path) ==
    <<reduce_bin>>
        \o (IF Contains(reduce_bin, Cvise)
            THEN <<ClangDeltaStdEq
                       \o get_csvise_supported_cpp_std(
                              help_msg,
                              get_cpp_std_from_compile_commands(commands)),
                   ToUtf8>>
            ELSE <<>>)
        \o <<Jobs, TestSh, PathName(file_path)>>

\* reduce, lines 214-236: the command line is built, then the command is
\* derived again, from the database of the sandbox (IndexError if it has no
\* entry for the file)
reduce_commands ==
    /\ tpc = "ready"
    /\ \E reducer \in Reducers :
          /\ supported' = reducer[2]
          /\ invocation' = reduce_invocation(reducer[1],
                                             HelpText(reducer[1], reducer[2]),
                                             sandbox_database, args_file)
    /\ reduce_compile_commands' =
          get_compile_commands_entry_for_file(args_file, sandbox_database)
    /\ tpc' = IF reduce_compile_commands' = <<>> THEN "fatal" ELSE "reducing"
    /\ UNCHANGED <<process_cwd, args_file, database, compile_commands,
                   sandbox_database, compile_command, written>>
    /\ UNCHANGED <<bisectVars, scriptVars, driverVars>>

\* the values the counter of reduce has had at a snapshot: one per
\* snapshot written
SnapshotsMade ==
    {k \in 0..MaxIterations :
        Join(cwd, PathName(args_file) \o str(k)) \in written}

\* reduce, lines 238-247, one pass of the loop: preprocess_file on
\* cwd/<name>, the reducer rewrites <name> in place (it is started in cwd),
\* and on a confirmed continuation the file is copied to <name><iteration>
reduce_writes ==
    /\ tpc = "reducing"
    /\ \E exit \in {0, 1} :
          LET pass ==
                  preprocess_file_writes(Join(cwd, PathName(args_file)),
                                         reduce_compile_commands[1].command,
                                         exit)
                      \cup {Join(cwd, PathName(args_file))}
          IN  \/ written' = written \cup pass
              \/ /\ Cardinality(SnapshotsMade) < MaxIterations
                 /\ written' = written \cup pass
                        \cup {Join(cwd, PathName(args_file)
                                            \o str(Cardinality(SnapshotsMade)))}
    /\ UNCHANGED <<process_cwd, args_file, database, compile_commands,
                   sandbox_database, compile_command, reduce_compile_commands,
                   supported, invocation, tpc>>
    /\ UNCHANGED <<bisectVars, scriptVars, driverVars>>

NextSetup ==
    \/ setup_compile_commands
    \/ reduce_commands
    \/ reduce_writes

SpecSetup == InitSetup /\ [][NextSetup]_vars
\* the three forms of the target's path: as given, absolute, resolved
PathForms(path) == {path, PathAbsolute(path), PathResolve(path)}

\* every entry of the database names the target file in one of its forms
AllNameTarget ==
    \A k \in 1..Len(database) : database[k].file \in PathForms(args_file)

\* C8: no transformed command holds "-Werror", bare or with a group.
C8_NoWerror ==
    tpc # "start" =>
        \A k \in 1..Len(compile_commands) :
            ~Contains(compile_commands[k].command, Werror)

\* C9: when the base-name substring test yields no entry or more than one,
\* sandbox setup ends in the fatal state (it never goes on with the first).
C9_AmbiguityIsFatal ==
    (tpc # "start" /\ Len(compile_commands) # 1) => tpc = "fatal"

\* C10: in the transformed command of every entry that names the target
\* (in any of the three forms) the path is replaced by exactly the base
\* name: the command holds neither the absolute path nor a directory
\* separator in front of the base name.
C10_PathReplacedByName ==
    (tpc # "start" /\ AllNameTarget) =>
        /\ Len(compile_commands) = Len(database)
        /\ \A k \in 1..Len(compile_commands) :
              /\ ~Contains(compile_commands[k].command,
                           PathAbsolute(args_file))
              /\ ~Contains(compile_commands[k].command,
                           <<"/">> \o PathName(args_file))

(* ---- the tokens of a command ---- *)
\* the words of a command line: the maximal runs without a space
RECURSIVE TokensFrom(_, _)
TokensFrom(s, i) ==
    LET starts == {k \in i..Len(s) : s[k] # " "}
    IN  IF starts = {} THEN <<>>
        ELSE <<SubSeq(s, Min(starts), RunEnd(s, Min(starts), {" "}, FALSE))>>
                 \o TokensFrom(s, RunEnd(s, Min(starts), {" "}, FALSE) + 1)

Tokens(s) == TokensFrom(s, 1)

EndsWith(s, suffix) ==
    Len(suffix) <= Len(s) /\ MatchesAt(s, Len(s) - Len(suffix) + 1, suffix)

\* a -Werror flag, bare or with a diagnostic group
IsWerrorToken(t) == t = Werror \/ MatchesAt(t, 1, Werror \o <<"=">>)

\* the command has one -c flag and one -o flag, whose value ends in .o
OneCompileOneOutput(toks) ==
    /\ Cardinality({j \in 1..Len(toks) : toks[j] = <<"-", "c">>}) = 1
    /\ Cardinality({j \in 1..Len(toks) : toks[j] = <<"-", "o">>}) = 1
    /\ \A j \in 1..Len(toks) :
          toks[j] = <<"-", "o">> =>
              j < Len(toks) /\ EndsWith(toks[j + 1], <<".", "o">>)

\* the tokens the transformed command is to have, from those of the command
RECURSIVE ExpectedTokens(_, _)
ExpectedTokens(toks, j) ==
    IF j > Len(toks) THEN <<>>
    ELSE (IF toks[j] = <<"-", "c">>
          THEN <<DashI \o PathParent(args_file),
                 <<"-", "W", "f", "a", "t", "a", "l", "-", "e", "r", "r", "o", "r", "s">>,
                 toks[j]>>
          ELSE IF j > 1 /\ toks[j - 1] = <<"-", "o">>
          THEN <<SubSeq(OutputCppO, Len(DashO) + 1, Len(OutputCppO))>>
          ELSE IF toks[j] \in {args_file, PathAbsolute(args_file),
                               PathResolve(args_file)}
          THEN <<PathName(args_file)>>
          ELSE IF IsWerrorToken(toks[j]) THEN <<>>
          ELSE <<toks[j]>>)
         \o ExpectedTokens(toks, j + 1)

\* C11: for every command of the target with one -c flag and one -o <obj>.o
\* flag, the transformed command has the same tokens except that the file is
\* its base name, the -o value is output.cpp.o, -I<parent> and
\* -Wfatal-errors stand once before -c, and -Werror is absent.
C11_TransformedTokens ==
    (tpc # "start" /\ AllNameTarget) =>
        /\ Len(compile_commands) = Len(database)
        /\ \A k \in 1..Len(compile_commands) :
              OneCompileOneOutput(Tokens(database[k].command)) =>
                  Tokens(compile_commands[k].command)
                      = ExpectedTokens(Tokens(database[k].command), 1)

\* `path` lies under the directory `dir` and does not climb out of it
Inside(path, dir) ==
    /\ MatchesAt(path, 1, dir \o <<"/">>)
    /\ ~Contains(path, <<".", ".">>)

PassedStd ==
    {SubSeq(invocation[k], Len(ClangDeltaStdEq) + 1, Len(invocation[k])) :
        k \in {j \in 1..Len(invocation) :
                   MatchesAt(invocation[j], 1, ClangDeltaStdEq)}}

\* the project's dialect: the value of -std= in the command of the sandbox,
\* gnu++NN read as c++NN, c++20 when there is none
ProjectStd ==
    LET command == sandbox_database[1].command
        at == {k \in 1..Len(command) : MatchesAt(command, k, StdEq)}
        from == Min(at) + Len(StdEq)
        value == SubSeq(command, from, RunEnd(command, from, {" "}, FALSE))
    IN  IF at = {} THEN Cpp20
        ELSE IF MatchesAt(value, 1, <<"g", "n", "u">>)
        THEN <<"c">> \o SubSeq(value, 4, Len(value))
        ELSE value

\* C20: the dialect passed as --clang-delta-std is the project's dialect
\* whenever the help of the reducer lists it, and otherwise the last dialect
\* listed; when the list is not empty the value passed is a member of it.
C20_ClangDeltaStd ==
    \A passed \in PassedStd :
        /\ ProjectStd \in Range(supported) => passed = ProjectStd
        /\ (ProjectStd \notin Range(supported) /\ supported # <<>>) =>
               passed = supported[Len(supported)]
        /\ supported # <<>> => passed \in Range(supported)

\* C21: the command the driver re-derives from the database inside the
\* sandbox equals the command stored in that database: transforming an
\* already transformed entry changes nothing (no second -I<dir>, no second
\* -Wfatal-errors), so the preprocess step of the driver uses the command
\* sandbox setup used.
C21_RederivedCommandUnchanged ==
    tpc = "reducing" =>
        /\ reduce_compile_commands = sandbox_database
        /\ reduce_compile_commands[1].command = compile_command
====
